---- MODULE Spec2Model ----
(***************************************************************************)
(* Model of functions/load_data.py (class LoadData) and                    *)
(* functions/sentiment.py (class Sentiment).                               *)
(*                                                                         *)
(* Python values are tagged tuples: None is <<"none">>, a str is           *)
(* <<"str", chars>> with chars a sequence of one-character strings, an     *)
(* int is <<"int", n>>, a float is <<"float", hundredths>> and a float NaN *)
(* is <<"nan">>.  A dict is a                                              *)
(* function whose DOMAIN is its key set, so a missing key is a key that    *)
(* is not in the DOMAIN.  A datetime is a number of clock ticks; a         *)
(* "%Y-%m-%d" string is a day number.                                      *)
(***************************************************************************)
EXTENDS Integers, Sequences, FiniteSets, TLC

\* ---------------------------------------------------------------- bounds
\* Clock ticks per calendar day (tick 0 of a day is midnight).
TicksPerDay == 2
\* Ticks that may pass between construction and the first call.
MaxElapsed == 1
\* Articles the chronological provider serves in one day's response.
MaxPerDay == 2
\* Articles the chronological provider serves over one whole window.
MaxArticles == 3
\* Items in one response of the offset provider.
MaxResults == 3
\* Characters of a text handed to a scorer directly.
MaxTextLen == 3
\* Rows of a table handed to the sentiment scorers.
MaxRows == 2

\* ------------------------------------------------------ program constants
\* timedelta(weeks=12)
WeeksBack == 12
WindowDays == WeeksBack * 7

\* ----------------------------------------------------------------- values
None == <<"none">>
Str(s) == <<"str", s>>
IntVal(n) == <<"int", n>>
\* A float, in hundredths: 0.0 is FloatVal(0), 1.0 is FloatVal(100).
FloatVal(h) == <<"float", h>>
NaN == <<"nan">>

List(s) == <<"list", s>>

\* isinstance(v, str)
IsStr(v) == v[1] = "str"

\* Python's `not v` for None, str and list values.
Falsy(v) == v[1] = "none" \/ (v[1] \in {"str", "list"} /\ v[2] = <<>>)

\* -------------------------------------------------------------- datetime
\* datetime.strftime("%Y-%m-%d"): the calendar day, time of day dropped.
Strftime(t) == t \div TicksPerDay

\* datetime.strptime(s, "%Y-%m-%d"): midnight of that day.
Strptime(d) == d * TicksPerDay

\* date + timedelta(days=n)
PlusDays(t, n) == t + n * TicksPerDay

\* First clock value a LoadData can be constructed at: start_date is day 0.
Epoch == WindowDays * TicksPerDay

MaxClock == Epoch + TicksPerDay - 1 + MaxElapsed

\* ------------------------------------------------------------ environment
\* os.getenv(name): None when unset, else the string (possibly empty).
EnvValues == {None, Str(<<>>), Str(<<"k">>)}

\* --------------------------------------------------------------- results
NoError == [type |-> "none", args |-> <<>>]
ValueError(args) == [type |-> "ValueError", args |-> args]
KeyError(key) == [type |-> "KeyError", args |-> <<key>>]

\* No response parsed yet.
NoBody == [status |-> "none"]

\* pd.DataFrame(): no columns, no rows.
EmptyFrame == [columns |-> <<>>, rows |-> <<>>]

VARIABLES
    env,          \* process environment after load_dotenv(): name -> value
    clock,        \* datetime.now()
    pc,           \* position of the LoadData caller
    op,           \* the LoadData method running or last run
    start_date,   \* self.start_date (a day)
    api_keys,     \* self.api_keys
    name,         \* self.name
    error,        \* exception raised by the last LoadData call, or NoError
    calls,        \* outbound lookups and requests, in order
    date,         \* load_news_data: local `date`
    today,        \* load_news_data: local `today`
    all_articles, \* load_news_data: local `all_articles`
    result,       \* DataFrame returned by the last adapter call
    served,       \* history: articles served in well-formed responses
    emptySeen,    \* history: some day was answered with an empty list
    lateServed,   \* history: articles were served after such a day
    fatalAt,      \* history: Len(calls) when the fatal response came, or 0
    data          \* history: last response parsed by load_apitube_data

ldVars == <<env, clock, pc, op, start_date, api_keys, name, error, calls, date,
            today, all_articles, result, served, emptySeen, lateServed,
            fatalAt, data>>

VARIABLES
    df,           \* the DataFrame the caller of Sentiment holds
    df0,          \* history: df as it was when the last call was made
    spc,          \* outcome of the last Sentiment call
    sop,          \* the Sentiment method last run
    sarg,         \* history: `text` of the last direct scorer call
    sout,         \* history: what the external model gave in that call
    sret,         \* value returned by the last direct scorer call
    serror,       \* exception raised by the last Sentiment call
    scored        \* texts the last call passed to self.vader / self.finbert

sVars == <<df, df0, spc, sop, sarg, sout, sret, serror, scored>>

vars == <<env, clock, pc, op, start_date, api_keys, name, error, calls, date,
          today, all_articles, result, served, emptySeen, lateServed,
          fatalAt, data, df, df0, spc, sop, sarg, sout, sret, serror,
          scored>>

\* ----------------------------------------------------------- sequences
SeqsUpTo(S, n) == UNION {[1..k -> S] : k \in 0..n}

Min(a, b) == IF a <= b THEN a ELSE b

\* The least element of a set of integers; 0 for the empty set.
First(S) == IF S = {} THEN 0 ELSE CHOOSE i \in S : \A j \in S : i <= j

\* ---------------------------------------------------------- LoadData.__init__
\* Variant of _load_api_keys that reports only the first missing key.
LoadApiKeysFirstOnly(e) ==
    LET api_key_news == e["API_KEY_NEWSAPI"]
        api_key_apitube == e["API_KEY_APITUBE"]
        missing == IF Falsy(api_key_news) THEN <<"NewsAPI">>
                   ELSE IF Falsy(api_key_apitube) THEN <<"APITube">>
                   ELSE <<>>
    IN  [exc |-> IF missing # <<>> THEN ValueError(missing) ELSE NoError,
         value |-> <<api_key_news, api_key_apitube>>]

\* _load_api_keys: the exception raised (NoError when none) and the tuple
\* returned.
LoadApiKeys(e) ==
    LET api_key_news == e["API_KEY_NEWSAPI"]
        api_key_apitube == e["API_KEY_APITUBE"]
        missing == (IF Falsy(api_key_news) THEN <<"NewsAPI">> ELSE <<>>)
                   \o (IF Falsy(api_key_apitube) THEN <<"APITube">> ELSE <<>>)
    IN  [exc |-> IF missing # <<>> THEN ValueError(missing) ELSE NoError,
         value |-> <<api_key_news, api_key_apitube>>]

\* ticker.info of yf.Ticker(stock_symbol): with or without "displayName".
TickerInfos == {[displayName |-> "Apple Inc."], [symbol |-> "AAPL"]}

\* dict.get(key, default)
DictGet(d, key, default) == IF key \in DOMAIN d THEN d[key] ELSE default

\* LoadData(stock_symbol), lines 25-29.
Construct ==
    /\ pc = "new"
    /\ \E info \in TickerInfos :
         LET stock_symbol == "AAPL"
             sd == Strftime(clock - WindowDays * TicksPerDay)
             keys == LoadApiKeys(env)
         IN  /\ op' = "__init__"
             /\ start_date' = sd
             /\ IF keys.exc # NoError
                THEN /\ pc' = "failed"
                     /\ error' = keys.exc
                     /\ UNCHANGED <<api_keys, name, calls>>
                ELSE /\ pc' = "idle"
                     /\ error' = NoError
                     /\ api_keys' = keys.value
                     /\ calls' = <<[api |-> "yfinance", q |-> stock_symbol]>>
                     /\ name' = DictGet(info, "displayName", stock_symbol)
    /\ UNCHANGED <<env, clock, date, today, all_articles, result, served,
                   emptySeen, lateServed, fatalAt, data>>
    /\ UNCHANGED sVars

\* Time passing between construction and the first call.
Tick ==
    /\ pc = "idle"
    /\ clock < MaxClock
    /\ clock' = clock + 1
    /\ UNCHANGED <<env, pc, op, start_date, api_keys, name, error, calls,
                   date, today, all_articles, result, served, emptySeen,
                   lateServed, fatalAt, data>>
    /\ UNCHANGED sVars

\* ------------------------------------------------ provider responses
Titles == {None, Str(<<>>), Str(<<"a">>), Str(<<"b">>)}

\* Items of the chronological provider: {title, publishedAt, description},
\* and one item that carries no "title" key.
NewsItems ==
    {[title |-> t, publishedAt |-> Str(<<"t">>), description |-> None] :
        t \in Titles \ {Str(<<"b">>)}}
    \cup {[publishedAt |-> Str(<<"t">>), description |-> None]}

\* One day's JSON body: an error body without "articles", or a body whose
\* "articles" list holds at most n items.
DayResponses(n) ==
    {[status |-> "error"]}
    \cup {[status |-> "ok", articles |-> List(s)] :
            s \in SeqsUpTo(NewsItems, Min(MaxPerDay, n))}

\* Items of the offset provider: {published_at, title, description}, and one
\* item that carries no "title" key.
ApitubeItems ==
    {[published_at |-> Str(<<"t">>), title |-> t, description |-> d] :
        t \in Titles, d \in {None, Str(<<"d">>)}}
    \cup {[published_at |-> Str(<<"t">>), description |-> None]}

ApitubeResponses ==
    {[status |-> "error"]}
    \cup {[status |-> "ok", results |-> List(s)] :
            s \in SeqsUpTo(ApitubeItems, MaxResults)}

\* ------------------------------------------------- LoadData.load_news_data
\* Variant of the loop condition that excludes the instant `today`.
LoopCondExclusive(d, t) == d < t

\* Line 96: the loop condition.
LoopCond(d, t) == d <= t

\* Variant of the branch that also stops on an empty list.
BranchStopOnEmpty(body) ==
    IF "articles" \in DOMAIN body /\ ~Falsy(body["articles"])
    THEN "extend" ELSE "break"

\* Variant of the branch that skips a body without `articles`.
BranchNeverStop(body) ==
    IF "articles" \in DOMAIN body /\ ~Falsy(body["articles"])
    THEN "extend" ELSE "continue"

\* Lines 106-111: what the loop does with one day's parsed body.
Branch(body) ==
    IF "articles" \in DOMAIN body
    THEN IF Falsy(body["articles"]) THEN "continue" ELSE "extend"
    ELSE "break"

\* The first key of the sequence `keys` that dict d lacks: the key whose
\* subscript raises KeyError.  "" when d has them all.
MissingKey(d, keys) ==
    LET i == First({k \in 1..Len(keys) : keys[k] \notin DOMAIN d})
    IN  IF i = 0 THEN "" ELSE keys[i]

\* Lines 113-117: the list comprehension and the DataFrame built from it.
\* [exc, value]: a KeyError for the first article that lacks a key.
BuildNewsFrame(articles) ==
    LET keys == <<"title", "publishedAt", "description">>
        bad == First({i \in 1..Len(articles) :
                        MissingKey(articles[i], keys) # ""})
    IN  IF bad # 0
        THEN [exc |-> KeyError(MissingKey(articles[bad], keys)),
              value |-> EmptyFrame]
        ELSE [exc |-> NoError,
              value |->
                [columns |-> <<"headline", "date", "description">>,
                 rows |-> [i \in 1..Len(articles) |->
                            [headline |-> articles[i]["title"],
                             date |-> articles[i]["publishedAt"],
                             description |-> articles[i]["description"]]]]]

\* Lines 91-94.
CallNews ==
    /\ pc = "idle"
    /\ pc' = "news"
    /\ op' = "load_news_data"
    /\ all_articles' = <<>>
    /\ date' = Strptime(start_date)
    /\ today' = clock
    /\ calls' = <<>>
    /\ error' = NoError
    /\ result' = EmptyFrame
    /\ served' = 0
    /\ emptySeen' = FALSE
    /\ lateServed' = FALSE
    /\ fatalAt' = 0
    /\ data' = NoBody
    /\ UNCHANGED <<env, clock, start_date, api_keys, name>>
    /\ UNCHANGED sVars

\* Leaving the loop: lines 113-117, then the return or the raise.
Finish(articles) ==
    LET built == BuildNewsFrame(articles)
    IN  /\ pc' = IF built.exc = NoError THEN "returned" ELSE "raised"
        /\ error' = built.exc
        /\ result' = built.value

\* One iteration of the loop, lines 96-111 (and lines 113-117 on break).
NewsIter ==
    /\ pc = "news"
    /\ LoopCond(date, today)
    /\ \E body \in DayResponses(MaxArticles - served) :
         LET date_str == Strftime(date)
             request == [api |-> "newsapi", q |-> name, key |-> api_keys[1],
                         from |-> date_str, to |-> date_str]
             branch == Branch(body)
             got == IF "articles" \in DOMAIN body
                    THEN body["articles"][2] ELSE <<>>
         IN  /\ calls' = Append(calls, request)
             /\ date' = PlusDays(date, 1)
             /\ served' = served + Len(got)
             /\ emptySeen' = (emptySeen
                              \/ ("articles" \in DOMAIN body /\ got = <<>>))
             /\ lateServed' = (lateServed \/ (emptySeen /\ got # <<>>))
             /\ fatalAt' = IF "articles" \in DOMAIN body
                           THEN fatalAt ELSE Len(calls) + 1
             /\ all_articles' = IF branch = "extend"
                                THEN all_articles \o body["articles"][2]
                                ELSE all_articles
             /\ IF branch = "break"
                THEN Finish(all_articles')
                ELSE UNCHANGED <<pc, error, result>>
    /\ UNCHANGED <<env, clock, op, start_date, api_keys, name, today, data>>
    /\ UNCHANGED sVars

\* The loop condition fails: lines 113-117, then the return or the raise.
NewsExit ==
    /\ pc = "news"
    /\ ~LoopCond(date, today)
    /\ Finish(all_articles)
    /\ UNCHANGED <<env, clock, op, start_date, api_keys, name, calls, date,
                   today, all_articles, served, emptySeen, lateServed,
                   fatalAt, data>>
    /\ UNCHANGED sVars

\* ---------------------------------------------- LoadData.load_apitube_data
\* Variant of drop_duplicates that keeps every row.
DropNothing(frame, column) == frame

\* DataFrame.drop_duplicates(subset=[column]) with the default keep="first":
\* a row is dropped when an earlier row has the same value in the column
\* (missing values compare equal to each other); an empty frame is returned
\* as it is.
DropDuplicates(frame, column) ==
    LET rows == frame.rows
        kept == {i \in 1..Len(rows) :
                    \A j \in 1..(i - 1) : rows[j][column] # rows[i][column]}
        RECURSIVE Pick(_)
        Pick(i) == IF i = 0 THEN <<>>
                   ELSE IF i \in kept THEN Append(Pick(i - 1), rows[i])
                   ELSE Pick(i - 1)
    IN  IF rows = <<>> THEN frame
        ELSE [columns |-> frame.columns, rows |-> Pick(Len(rows))]

\* pd.DataFrame(records) for a list of dicts that all have the keys `keys`:
\* the columns are the keys in the order of the first dict, none for [].
FrameOfRecords(records, keys) ==
    [columns |-> IF records = <<>> THEN <<>> ELSE keys, rows |-> records]

\* Lines 141-155 for the parsed body: [exc, value].
ApitubeFrame(body) ==
    IF "results" \notin DOMAIN body
    THEN [exc |-> NoError, value |-> EmptyFrame]
    ELSE LET items == body["results"][2]
             keys == <<"published_at", "title", "description">>
             bad == First({i \in 1..Len(items) :
                             MissingKey(items[i], keys) # ""})
             records == [i \in 1..Len(items) |->
                           [date |-> items[i]["published_at"],
                            headline |-> items[i]["title"],
                            description |-> items[i]["description"]]]
         IN  IF bad # 0
             THEN [exc |-> KeyError(MissingKey(items[bad], keys)),
                   value |-> EmptyFrame]
             ELSE [exc |-> NoError,
                   value |-> DropDuplicates(
                       FrameOfRecords(records,
                                      <<"date", "headline", "description">>),
                       "headline")]

\* load_apitube_data, lines 126-155.
CallApitube ==
    /\ pc = "idle"
    /\ \E body \in ApitubeResponses :
         LET out == ApitubeFrame(body)
         IN  /\ data' = body
             /\ calls' = <<[api |-> "apitube", q |-> name,
                            key |-> api_keys[2]]>>
             /\ pc' = IF out.exc = NoError THEN "returned" ELSE "raised"
             /\ error' = out.exc
             /\ result' = out.value
    /\ op' = "load_apitube_data"
    /\ date' = 0
    /\ today' = 0
    /\ all_articles' = <<>>
    /\ served' = 0
    /\ emptySeen' = FALSE
    /\ lateServed' = FALSE
    /\ fatalAt' = 0
    /\ UNCHANGED <<env, clock, start_date, api_keys, name>>
    /\ UNCHANGED sVars

\* The caller is done with what the last call returned or raised; the
\* LoadData object is ready for the next call.
Release ==
    /\ pc \in {"returned", "raised"}
    /\ pc' = "idle"
    /\ error' = NoError
    /\ result' = EmptyFrame
    /\ calls' = <<>>
    /\ date' = 0
    /\ today' = 0
    /\ all_articles' = <<>>
    /\ served' = 0
    /\ emptySeen' = FALSE
    /\ lateServed' = FALSE
    /\ fatalAt' = 0
    /\ data' = NoBody
    /\ UNCHANGED <<env, clock, op, start_date, api_keys, name>>
    /\ UNCHANGED sVars

\* ------------------------------------------------------------ LoadData spec
LoadDataInit ==
    /\ env \in [{"API_KEY_NEWSAPI", "API_KEY_APITUBE"} -> EnvValues]
    /\ clock \in Epoch..(Epoch + TicksPerDay - 1)
    /\ pc = "new"
    /\ op = "none"
    /\ start_date = 0
    /\ api_keys = <<None, None>>
    /\ name = ""
    /\ error = NoError
    /\ calls = <<>>
    /\ date = 0
    /\ today = 0
    /\ all_articles = <<>>
    /\ result = EmptyFrame
    /\ served = 0
    /\ emptySeen = FALSE
    /\ lateServed = FALSE
    /\ fatalAt = 0
    /\ data = NoBody

LoadDataNext ==
    \/ Construct
    \/ Tick
    \/ CallNews
    \/ NewsIter
    \/ NewsExit
    \/ CallApitube
    \/ Release

\* ===================================================== functions/sentiment.py
\* ------------------------------------------------------------------ str
Whitespace == {" ", "\t", "\n"}

\* str.strip(): leading and trailing whitespace removed.
RECURSIVE LStrip(_)
LStrip(s) == IF s # <<>> /\ Head(s) \in Whitespace THEN LStrip(Tail(s)) ELSE s

RECURSIVE RStrip(_)
RStrip(s) ==
    IF s # <<>> /\ s[Len(s)] \in Whitespace
    THEN RStrip(SubSeq(s, 1, Len(s) - 1)) ELSE s

Strip(s) == RStrip(LStrip(s))

UpperCase == <<"A", "B", "C", "D", "E", "F", "G", "H", "I", "J", "K", "L", "M",
               "N", "O", "P", "Q", "R", "S", "T", "U", "V", "W", "X", "Y", "Z">>
LowerCase == <<"a", "b", "c", "d", "e", "f", "g", "h", "i", "j", "k", "l", "m",
               "n", "o", "p", "q", "r", "s", "t", "u", "v", "w", "x", "y", "z">>

\* The lower-case letter of each upper-case letter.
LowerOf == [c \in {UpperCase[k] : k \in 1..26} |->
              LowerCase[CHOOSE k \in 1..26 : UpperCase[k] = c]]

\* str.lower()
Lower(s) ==
    [i \in 1..Len(s) |->
        IF s[i] \in DOMAIN LowerOf THEN LowerOf[s[i]] ELSE s[i]]

\* ------------------------------------------------------- external models
\* Compound scores self.vader.polarity_scores(text) may give, in hundredths.
Compounds == {-100, 64}

positive == <<"p", "o", "s", "i", "t", "i", "v", "e">>
negative == <<"n", "e", "g", "a", "t", "i", "v", "e">>
neutral == <<"n", "e", "u", "t", "r", "a", "l">>

\* Labels self.finbert(text)[0]["label"] may carry.
Labels == {positive, negative, neutral,
           <<"P", "o", "s", "i", "t", "i", "v", "e">>}

\* -------------------------------------------------------------- scorers
\* Variant of the guard that only catches the empty str.
IsBlankStrOnly(text) == IsStr(text) /\ text[2] = <<>>

\* Lines 30 and 61: the guard that returns the neutral value.
IsBlank(text) == ~IsStr(text) \/ Strip(text[2]) = <<>>

\* _get_vader_sentiment(text), lines 30-33, when polarity_scores would give
\* `compound`: the value returned and the texts passed to the analyzer.
GetVaderSentiment(text, compound) ==
    IF IsBlank(text)
    THEN [value |-> FloatVal(0), passed |-> <<>>]
    ELSE [value |-> FloatVal(compound), passed |-> <<text>>]

\* Variant of the label map whose default is 1.
LabelValueDefaultOne(label) ==
    IF label = positive THEN 1 ELSE IF label = negative THEN -1 ELSE 1

\* Line 66: {"positive": 1, "negative": -1}.get(label, 0)
LabelValue(label) ==
    IF label = positive THEN 1 ELSE IF label = negative THEN -1 ELSE 0

\* _get_finbert_sentiment(text), lines 61-66, when the pipeline would give
\* `rawLabel`.
GetFinbertSentiment(text, rawLabel) ==
    IF IsBlank(text)
    THEN [value |-> IntVal(0), passed |-> <<>>]
    ELSE [value |-> IntVal(LabelValue(Lower(rawLabel))), passed |-> <<text>>]

\* ------------------------------------------------------------- annotate
Range(s) == {s[i] : i \in 1..Len(s)}

\* Variant of the column check that always passes.
HasColumnAlways(frame, column) == TRUE

\* Lines 45 and 78: `column in df.columns`.
HasColumn(frame, column) == column \in Range(frame.columns)

\* df[target] = values: the column is appended when new, replaced otherwise.
SetColumn(frame, target, values) ==
    [columns |-> IF target \in Range(frame.columns) THEN frame.columns
                 ELSE Append(frame.columns, target),
     rows |-> [i \in 1..Len(frame.rows) |->
                 [c \in DOMAIN frame.rows[i] \cup {target} |->
                     IF c = target THEN values[i] ELSE frame.rows[i][c]]]]

\* The `passed` fields of a sequence of scorer results, concatenated.
RECURSIVE Passed(_)
Passed(rs) == IF rs = <<>> THEN <<>> ELSE rs[1].passed \o Passed(Tail(rs))

\* Lines 45-49 and 78-82 for the scorer results `rs` of the source column's
\* cells: the exception raised, the frame afterwards and the texts passed on.
Annotate(frame, source, target, rs) ==
    IF ~HasColumn(frame, source)
    THEN [exc |-> ValueError(<<source>>), value |-> frame, passed |-> <<>>]
    ELSE IF source \notin Range(frame.columns)
    THEN [exc |-> KeyError(source), value |-> frame, passed |-> <<>>]
    ELSE [exc |-> NoError,
          value |-> SetColumn(frame, target,
                              [i \in 1..Len(rs) |-> rs[i].value]),
          passed |-> Passed(rs)]

\* The cell of row i the scorer is applied to; None where the frame has no
\* such column (the scorer is then never applied).
Cell(frame, i, column) ==
    IF column \in DOMAIN frame.rows[i] THEN frame.rows[i][column] ELSE None

\* Texts handed to a scorer directly: values that are no str, and every
\* string of at most MaxTextLen characters over a small alphabet.
Texts == {None, NaN, IntVal(3)}
         \cup {Str(s) : s \in SeqsUpTo({" ", "\t", "a"}, MaxTextLen)}

\* _get_vader_sentiment(text) called on its own.
ScoreVader ==
    /\ spc = "ready"
    /\ \E text \in Texts, compound \in Compounds :
         LET r == GetVaderSentiment(text, compound)
         IN  /\ sarg' = text
             /\ sout' = IF r.passed = <<>> THEN None ELSE FloatVal(compound)
             /\ sret' = r.value
             /\ scored' = r.passed
    /\ sop' = "_get_vader_sentiment"
    /\ spc' = "returned"
    /\ serror' = NoError
    /\ df0' = df
    /\ UNCHANGED df
    /\ UNCHANGED ldVars

\* _get_finbert_sentiment(text) called on its own.
ScoreFinbert ==
    /\ spc = "ready"
    /\ \E text \in Texts, label \in Labels :
         LET r == GetFinbertSentiment(text, label)
         IN  /\ sarg' = text
             /\ sout' = IF r.passed = <<>> THEN None ELSE Str(label)
             /\ sret' = r.value
             /\ scored' = r.passed
    /\ sop' = "_get_finbert_sentiment"
    /\ spc' = "returned"
    /\ serror' = NoError
    /\ df0' = df
    /\ UNCHANGED df
    /\ UNCHANGED ldVars

\* add_vader_sentiment(df), lines 45-49.
AddVader ==
    /\ spc = "ready"
    /\ \E outs \in [1..Len(df.rows) -> Compounds] :
         LET rs == [i \in 1..Len(df.rows) |->
                      GetVaderSentiment(Cell(df, i, "headline"), outs[i])]
             r == Annotate(df, "headline", "sentiment", rs)
         IN  /\ df' = r.value
             /\ serror' = r.exc
             /\ scored' = r.passed
             /\ spc' = IF r.exc = NoError THEN "returned" ELSE "raised"
    /\ sop' = "add_vader_sentiment"
    /\ df0' = df
    /\ sarg' = None
    /\ sout' = None
    /\ sret' = None
    /\ UNCHANGED ldVars

\* add_finbert_sentiment(df), lines 78-82.
AddFinbert ==
    /\ spc = "ready"
    /\ \E outs \in [1..Len(df.rows) -> Labels] :
         LET rs == [i \in 1..Len(df.rows) |->
                      GetFinbertSentiment(Cell(df, i, "description"), outs[i])]
             r == Annotate(df, "description", "finbert_sentiment", rs)
         IN  /\ df' = r.value
             /\ serror' = r.exc
             /\ scored' = r.passed
             /\ spc' = IF r.exc = NoError THEN "returned" ELSE "raised"
    /\ sop' = "add_finbert_sentiment"
    /\ df0' = df
    /\ sarg' = None
    /\ sout' = None
    /\ sret' = None
    /\ UNCHANGED ldVars

\* The caller is done with the outcome of the last call and keeps the table.
SentimentDone ==
    /\ spc \in {"returned", "raised"}
    /\ spc' = "ready"
    /\ df0' = df
    /\ sop' = "none"
    /\ sarg' = None
    /\ sout' = None
    /\ sret' = None
    /\ serror' = NoError
    /\ scored' = <<>>
    /\ UNCHANGED df
    /\ UNCHANGED ldVars

\* --------------------------------------------------------- Sentiment spec
\* Cell values of the tables handed to the scorers.
CellTexts == {None, Str(<<"a">>)}

\* Column lists of those tables: pd.DataFrame(), the adapters' three columns,
\* and tables that lack one of the source columns.
ColumnLists == {<<>>,
                <<"headline", "date", "description">>,
                <<"headline", "date">>,
                <<"date", "description">>}

MakeRow(cols, h, d) ==
    [c \in Range(cols) |->
        IF c = "headline" THEN h
        ELSE IF c = "description" THEN d ELSE Str(<<"t">>)]

Tables ==
    UNION {{[columns |-> cols, rows |-> rs] :
              rs \in SeqsUpTo({MakeRow(cols, h, d) : h, d \in CellTexts},
                              IF cols = <<>> THEN 0 ELSE MaxRows)} :
           cols \in ColumnLists}

SentimentStart ==
    /\ df0 = df
    /\ spc = "ready"
    /\ sop = "none"
    /\ sarg = None
    /\ sout = None
    /\ sret = None
    /\ serror = NoError
    /\ scored = <<>>

\* ------------------------------------------------------- specifications
\* LoadData: construction, then calls of the two news adapters.
Init ==
    /\ LoadDataInit
    /\ df = EmptyFrame
    /\ SentimentStart

Next == LoadDataNext

Spec == Init /\ [][Next]_vars

\* Sentiment: the two scorers, called on one text at a time.
ScorerInit ==
    /\ LoadDataInit
    /\ env = [k \in {"API_KEY_NEWSAPI", "API_KEY_APITUBE"} |-> Str(<<"k">>)]
    /\ clock = Epoch
    /\ df = EmptyFrame
    /\ SentimentStart

ScorerNext ==
    \/ ScoreVader
    \/ ScoreFinbert
    \/ SentimentDone

ScorerSpec == ScorerInit /\ [][ScorerNext]_vars

\* Sentiment: the two annotate operations on a table.
AnnotateInit ==
    /\ LoadDataInit
    /\ env = [k \in {"API_KEY_NEWSAPI", "API_KEY_APITUBE"} |-> Str(<<"k">>)]
    /\ clock = Epoch
    /\ df \in Tables
    /\ SentimentStart

AnnotateNext ==
    \/ AddVader
    \/ AddFinbert
    \/ SentimentDone

AnnotateSpec == AnnotateInit /\ [][AnnotateNext]_vars

\* ================================================================ properties
\* Calendar days of the window of the running load_news_data call, both
\* endpoints included.
WindowLength == Strftime(today) - start_date + 1

NewsFinished == op = "load_news_data" /\ pc \in {"returned", "raised"}

\* C1: in load_news_data a day answered with a well-formed empty `articles`
\* list does not end the loop: when every day's body carried `articles`, every
\* day of the window from start_date to today was queried, and the table
\* returned has as many rows as articles were served over all the days.
EmptyDayDoesNotStop ==
    (NewsFinished /\ fatalAt = 0) =>
        /\ \A d \in start_date..Strftime(today) :
              \E i \in 1..Len(calls) : calls[i].from = d
        /\ pc = "returned" => Len(result.rows) = served

\* C1 witness: a call returned three rows although an earlier day of the
\* window was answered with an empty list; articles came after that day.
EmptyDayWitness ==
    /\ NewsFinished /\ pc = "returned" /\ fatalAt = 0
    /\ emptySeen /\ lateServed
    /\ Len(result.rows) = 3

\* C2: as soon as a day's body has no `articles` field the loop is left: the
\* request of that day is the last one issued, and that day was asked once.
FatalStops ==
    (op = "load_news_data" /\ fatalAt # 0) =>
        /\ pc \in {"returned", "raised"}
        /\ Len(calls) = fatalAt
        /\ \A i \in 1..Len(calls) :
              calls[i].from = calls[fatalAt].from => i = fatalAt

\* C2 witness: a call ended by a body without `articles` before the last day
\* of the window, after articles had been collected.
FatalWitness ==
    /\ NewsFinished /\ pc = "returned"
    /\ fatalAt = 2 /\ fatalAt < WindowLength
    /\ served > 0

\* C3, as the specification states it: every record of the table load_news_data returns has a
\* non-empty headline; items without a title are skipped, the others returned.
HeadlineNeverEmpty ==
    NewsFinished =>
        /\ pc = "returned"
        /\ \A i \in 1..Len(result.rows) :
              /\ IsStr(result.rows[i]["headline"])
              /\ result.rows[i]["headline"][2] # <<>>

ApitubeFinished == op = "load_apitube_data" /\ pc \in {"returned", "raised"}

\* C4: for a body that carries `results`, load_apitube_data returns a table
\* with exactly one record for each headline value occurring in the results
\* and no other record (the items being of the provider's shape
\* {published_at, title, description}).
OneRecordPerHeadline ==
    (ApitubeFinished /\ "results" \in DOMAIN data) =>
        LET items == data["results"][2]
            shaped == \A i \in 1..Len(items) :
                        {"published_at", "title", "description"}
                            \subseteq DOMAIN items[i]
            rows == result.rows
        IN  /\ shaped => pc = "returned"
            /\ pc = "returned" =>
                  /\ \A i \in 1..Len(items) :
                        Cardinality({k \in 1..Len(rows) :
                            rows[k]["headline"] = items[i]["title"]}) = 1
                  /\ \A k \in 1..Len(rows) :
                        \E i \in 1..Len(items) :
                            items[i]["title"] = rows[k]["headline"]

\* C4 witness: three results, two of them sharing a headline, gave two rows.
SharedHeadlineWitness ==
    /\ ApitubeFinished /\ pc = "returned" /\ "results" \in DOMAIN data
    /\ Len(data["results"][2]) = 3
    /\ data["results"][2][1]["title"] = data["results"][2][3]["title"]
    /\ data["results"][2][1] # data["results"][2][3]
    /\ Len(result.rows) = 2

\* C5, as the specification states it: the table an adapter returns always has exactly the
\* columns {headline, date, description}.
ColumnsAlwaysCanonical ==
    ((NewsFinished \/ ApitubeFinished) /\ pc = "returned") =>
        Range(result.columns) = {"headline", "date", "description"}

\* C9: when a required secret is absent from the environment, construction
\* fails with the ValueError of _load_api_keys before any lookup or request is
\* issued, and the error names every absent secret.
MissingSecretsFailConstruction ==
    LET absent == {k \in DOMAIN env : env[k] = None}
    IN  (absent # {} /\ pc # "new") =>
            /\ pc = "failed"
            /\ error.type = "ValueError"
            /\ calls = <<>>
            /\ "API_KEY_NEWSAPI" \in absent => "NewsAPI" \in Range(error.args)
            /\ "API_KEY_APITUBE" \in absent => "APITube" \in Range(error.args)

\* C9 witness: construction failed with both secrets absent and both named.
BothSecretsMissingWitness ==
    /\ pc = "failed"
    /\ \A k \in DOMAIN env : env[k] = None
    /\ error.args = <<"NewsAPI", "APITube">>

\* C10, the state part: the requests of load_news_data are one per calendar
\* day, in increasing order from start_date, never beyond today; and when no
\* body was fatal they are as many as the window has days.
OneRequestPerDay ==
    op = "load_news_data" =>
        /\ \A i \in 1..Len(calls) :
              /\ calls[i].from = start_date + i - 1
              /\ calls[i].to = calls[i].from
        /\ pc # "idle" => Len(calls) <= WindowLength
        /\ pc = "news" => date <= PlusDays(today, 1)
        /\ (NewsFinished /\ fatalAt = 0) => Len(calls) = WindowLength

\* C10: the fetch loop terminates and issues a bounded sequence of requests:
\* OneRequestPerDay always holds, and every step taken inside the loop either
\* leaves it or moves `date` forward, which is bounded by today.
BoundedFetch ==
    /\ []OneRequestPerDay
    /\ [][pc = "news" => (pc' # "news" \/ date' > date)]_vars

\* C10 witness: a call made at midnight, one day after construction, issued
\* a request for every day of its window, the day of the call included.
FullWindowWitness ==
    /\ NewsFinished /\ fatalAt = 0
    /\ today = Strptime(Strftime(today))
    /\ Len(calls) = WindowDays + 2

\* A text that is no str, or a str of whitespace characters only (the empty
\* str included).
NoText(text) ==
    \/ ~IsStr(text)
    \/ \A i \in 1..Len(text[2]) : text[2][i] \in Whitespace

\* C6: for a text that is empty, whitespace-only or no str,
\* _get_vader_sentiment returns 0.0 and _get_finbert_sentiment returns 0, and
\* nothing is passed to the VADER analyzer or the FinBERT pipeline.
NeutralWithoutModel ==
    (spc = "returned" /\ NoText(sarg)) =>
        /\ scored = <<>>
        /\ sop = "_get_vader_sentiment" => sret = FloatVal(0)
        /\ sop = "_get_finbert_sentiment" => sret = IntVal(0)

\* C6 witness: the classifier scorer returned for a whitespace-only text.
WhitespaceTextWitness ==
    /\ spc = "returned" /\ sop = "_get_finbert_sentiment"
    /\ sarg = Str(<<" ", "\t">>)
    /\ sret = IntVal(0)

\* C7: an annotate operation on a table without its source column (headline
\* for add_vader_sentiment, description for add_finbert_sentiment) raises the
\* ValueError of its column check and leaves the table as it was: no column
\* is added, no scorer is run and nothing is returned.
MissingColumnFails ==
    (\/ sop = "add_vader_sentiment" /\ "headline" \notin Range(df0.columns)
     \/ sop = "add_finbert_sentiment"
            /\ "description" \notin Range(df0.columns)) =>
        /\ spc = "raised"
        /\ serror.type = "ValueError"
        /\ df = df0
        /\ scored = <<>>

\* C7 witness: add_finbert_sentiment raised on a table with rows that already
\* carries the sentiment column and has no description column.
MissingDescriptionWitness ==
    /\ spc = "raised" /\ sop = "add_finbert_sentiment"
    /\ df0.rows # <<>>
    /\ "sentiment" \in Range(df0.columns)
    /\ "description" \notin Range(df0.columns)

\* C8: _get_finbert_sentiment returns -1, 0 or 1 for every text and every
\* label of the classifier: with `label` the lower-cased label of line 65,
\* positive gives 1, negative gives -1 and any other label gives 0.
ClassifierValue ==
    (spc = "returned" /\ sop = "_get_finbert_sentiment") =>
        /\ sret \in {IntVal(-1), IntVal(0), IntVal(1)}
        /\ IsStr(sout) =>
              LET label == Lower(sout[2])
              IN  /\ sout[2] = positive => sret = IntVal(1)
                  /\ sout[2] = negative => sret = IntVal(-1)
                  /\ label = positive => sret = IntVal(1)
                  /\ label = negative => sret = IntVal(-1)
                  /\ label \notin {positive, negative} => sret = IntVal(0)

\* C8 witness: the classifier was run and its label neutral was folded to 0.
NeutralLabelWitness ==
    /\ spc = "returned" /\ sop = "_get_finbert_sentiment"
    /\ scored # <<>>
    /\ sout = Str(neutral)
    /\ sret = IntVal(0)

====
